---- MODULE Spec2Model ----
(***************************************************************************)
(* A model of the gelf-rust Logger facade (src/src/logger.rs) and of       *)
(* MessageCompression::compress (src/src/message/compression.rs).          *)
(*                                                                         *)
(* Spec         : a Logger shared by the threads of Threads; each thread   *)
(*                calls log_message (directly or through the log::Log      *)
(*                adapter) while the owner mutates the Logger between      *)
(*                calls.                                                   *)
(* SpecCompress : compress applied to every wire message and algorithm,    *)
(*                followed by the matching decoder.                        *)
(***************************************************************************)
EXTENDS Integers, Sequences, FiniteSets, TLC

VARIABLES
    logger,     \* the Logger: [hostname, default_metadata]
    pc,         \* per thread: "idle", "dispatch" (wire built), "done" (backend returned)
    call,       \* per thread: the log_message call in progress
    nLogged,    \* log_message calls begun
    nSent,      \* invocations of the backend's log
    nRecords,   \* records passed to the log::Log adapter
    nForwarded, \* log_message calls made by the log::Log adapter
    history,    \* history: whether set_hostname ran, whether an add replaced a value
    expHost,    \* history: the hostname most recently given to the Logger
    expMeta,    \* history: per key, the value most recently added ("absent" if never)
    cpc,        \* compress: "start", "compressed", "decoded"
    cin,        \* compress: the input [alg, wire]
    cio,        \* compress: where the stream encoder fails ("none" if nowhere)
    cres,       \* compress: the result
    cdec        \* the bytes the matching decoder recovers from the result

vars == <<logger, pc, call, nLogged, nSent, nRecords, nForwarded, history, expHost, expMeta, cpc, cin, cio, cres, cdec>>

loggerVars == <<logger, pc, call, nLogged, nSent, nRecords, nForwarded, history, expHost, expMeta>>
compressVars == <<cpc, cin, cio, cres, cdec>>

-----------------------------------------------------------------------------
(* Bounds and input sets *)

MaxCalls == 2

Threads == {"t1", "t2"}
Hostnames == {"myhost", "other"}
Keys == {"facility", "host"}
Values == {"a", "b"}
LogLevels == {"Error", "Warn", "Info", "Debug", "Trace"}

\* HashMap<String, String> values over Keys
Maps == UNION {[D -> Values] : D \in SUBSET Keys}
EmptyMap == [k \in {} |-> "a"]

-----------------------------------------------------------------------------
(* Message and WireMessage *)

\* syslog severity codes of Level
LevelCode(level) ==
    CASE level = "Emergency" -> 0
      [] level = "Alert" -> 1
      [] level = "Critical" -> 2
      [] level = "Error" -> 3
      [] level = "Warning" -> 4
      [] level = "Notice" -> 5
      [] level = "Informational" -> 6
      [] level = "Debug" -> 7

\* Message::new(short_message, level) with metadata set by the builder
Message(short, level, metadata) ==
    [short_message |-> short, level |-> level, metadata |-> metadata]

\* the messages a caller hands to log_message directly
DirectMessages == {Message("hi", "Informational", m) : m \in Maps}

\* log::LogLevel -> Level
LevelOfLogLevel(l) ==
    CASE l = "Error" -> "Error"
      [] l = "Warn" -> "Warning"
      [] l = "Info" -> "Informational"
      [] l = "Debug" -> "Debug"
      [] l = "Trace" -> "Debug"

\* log::LogRecord values
Records == [level : LogLevels, text : {"rec"}]

\* From<&LogRecord> for Message
FromRecord(record) == Message(record.text, LevelOfLogLevel(record.level), EmptyMap)

ReservedNames == {"version", "host", "short_message", "full_message", "timestamp", "level"}

\* an additional field's name on the wire: the key with a leading underscore
Prefix(k) == <<"_", k>>
Unprefix(f) == f[2]

\* WireMessage::new(msg, &logger): the message's fields, the logger's hostname,
\* and the defaults for the keys the message does not set
WireMessage_new(msg, l) ==
    LET md == msg.metadata
        dm == l.default_metadata
        staged == [k \in DOMAIN dm \cup DOMAIN md |->
                      IF k \in DOMAIN md THEN md[k] ELSE dm[k]]
    IN [version |-> "1.1",
        host |-> l.hostname,
        short_message |-> msg.short_message,
        level |-> LevelCode(msg.level),
        fields |-> [f \in {Prefix(k) : k \in DOMAIN staged} |-> staged[Unprefix(f)]]]

-----------------------------------------------------------------------------
(* Logger *)

new_with_hostname(h) == [hostname |-> h, default_metadata |-> EmptyMap]

hostname(l) == l.hostname

set_hostname_ignored(l, h) == l

set_hostname(l, h) == [l EXCEPT !.hostname = h]

default_metadata(l) == l.default_metadata

\* HashMap::insert
Insert_keep_existing(m, k, v) ==
    [x \in DOMAIN m \cup {k} |-> IF x \in DOMAIN m THEN m[x] ELSE v]

Insert(m, k, v) == [x \in DOMAIN m \cup {k} |-> IF x = k THEN v ELSE m[x]]

add_default_metadata(l, k, v) ==
    [l EXCEPT !.default_metadata = Insert(@, k, v)]

\* the argument log_message passes to the backend
log_message_without_defaults(l, msg) ==
    WireMessage_new(msg, new_with_hostname(l.hostname))

log_message(l, msg) == WireMessage_new(msg, l)

\* what log_message returns to its caller given what the backend's log returned
log_message_propagating(backendResult) == backendResult

log_message_result(backendResult) == "unit"

\* log::Log::enabled
enabled(l, record) == TRUE

-----------------------------------------------------------------------------
(* The backend capability *)

BackendResults == {"ok", "err"}

Idle == [via |-> "none"]

InFlight == {t \in Threads : pc[t] # "idle"}

\* &mut self: the borrow checker admits a mutation only while no call borrows the Logger
Exclusive == InFlight = {}

-----------------------------------------------------------------------------
(* Logger operations as steps *)

InitLogger ==
    /\ \E h \in Hostnames :
          /\ logger = new_with_hostname(h)
          /\ expHost = h
    /\ pc = [t \in Threads |-> "idle"]
    /\ call = [t \in Threads |-> Idle]
    /\ nLogged = 0
    /\ nSent = 0
    /\ nRecords = 0
    /\ nForwarded = 0
    /\ history = [hostSet |-> FALSE, replaced |-> FALSE]
    /\ expMeta = [k \in Keys |-> "absent"]

SetHostname(h) ==
    /\ Exclusive
    /\ logger' = set_hostname(logger, h)
    /\ expHost' = h
    /\ history' = [history EXCEPT !.hostSet = TRUE]
    /\ UNCHANGED <<pc, call, nLogged, nSent, nRecords, nForwarded, expMeta, compressVars>>

AddDefaultMetadata(k, v) ==
    /\ Exclusive
    /\ logger' = add_default_metadata(logger, k, v)
    /\ expMeta' = [expMeta EXCEPT ![k] = v]
    /\ history' = [history EXCEPT !.replaced = @ \/ (expMeta[k] \notin {"absent", v})]
    /\ UNCHANGED <<pc, call, nLogged, nSent, nRecords, nForwarded, expHost, compressVars>>

\* log_message entered by thread t: WireMessage::new(msg, &self) is evaluated
LogMessage_merging_into_logger(t, msg, origin) ==
    /\ pc[t] = "idle"
    /\ nLogged < MaxCalls
    /\ call' = [call EXCEPT ![t] = origin @@ [msg |-> msg, wire |-> log_message(logger, msg)]]
    /\ pc' = [pc EXCEPT ![t] = "dispatch"]
    /\ nLogged' = nLogged + 1
    /\ logger' = [logger EXCEPT !.default_metadata =
                     [k \in DOMAIN @ \cup DOMAIN msg.metadata |->
                         IF k \in DOMAIN msg.metadata THEN msg.metadata[k] ELSE @[k]]]
    /\ nForwarded' = nForwarded + (IF origin.via = "log" THEN 1 ELSE 0)
    /\ UNCHANGED <<nSent, history, expHost, expMeta, compressVars>>

LogMessage(t, msg, origin) ==
    /\ pc[t] = "idle"
    /\ nLogged < MaxCalls
    /\ call' = [call EXCEPT ![t] = origin @@ [msg |-> msg, wire |-> log_message(logger, msg)]]
    /\ pc' = [pc EXCEPT ![t] = "dispatch"]
    /\ nLogged' = nLogged + 1
    /\ nForwarded' = nForwarded + (IF origin.via = "log" THEN 1 ELSE 0)
    /\ UNCHANGED <<logger, nSent, history, expHost, expMeta, compressVars>>

\* a caller's own logger.log_message(msg)
LogMessageDirect(t, msg) ==
    /\ LogMessage(t, msg, [via |-> "direct"])
    /\ UNCHANGED nRecords

\* log::Log::log: the body of `if !self.enabled(..) { () }` is the unit value, so
\* both branches go on to log_message
Log_filtering(t, record) ==
    IF record.level = "Trace"
    THEN /\ pc[t] = "idle"
         /\ nLogged < MaxCalls
         /\ nRecords' = nRecords + 1
         /\ UNCHANGED <<logger, pc, call, nLogged, nSent, nForwarded, history, expHost, expMeta, compressVars>>
    ELSE /\ LogMessage(t, FromRecord(record),
                       [via |-> "log", record |-> record, enabledSeen |-> enabled(logger, record)])
         /\ nRecords' = nRecords + 1

Log(t, record) ==
    /\ IF ~enabled(logger, record) THEN TRUE ELSE TRUE
    /\ LogMessage(t, FromRecord(record),
                  [via |-> "log", record |-> record, enabledSeen |-> enabled(logger, record)])
    /\ nRecords' = nRecords + 1

\* self.backend.log(wire): the backend runs and returns r; log_message drops r
BackendLog_retrying(t) ==
    /\ pc[t] = "dispatch"
    /\ \E r \in BackendResults :
          LET n == IF r = "err" THEN 2 ELSE 1
          IN /\ call' = [call EXCEPT ![t] =
                            @ @@ [received |-> @.wire, outcome |-> r, sends |-> n,
                                  ret |-> log_message_result(r)]]
             /\ nSent' = nSent + n
    /\ pc' = [pc EXCEPT ![t] = "done"]
    /\ UNCHANGED <<logger, nLogged, nRecords, nForwarded, history, expHost, expMeta, compressVars>>

BackendLog(t) ==
    /\ pc[t] = "dispatch"
    /\ \E r \in BackendResults :
          /\ call' = [call EXCEPT ![t] =
                         @ @@ [received |-> @.wire, outcome |-> r, sends |-> 1,
                               ret |-> log_message_result(r)]]
          /\ nSent' = nSent + 1
    /\ pc' = [pc EXCEPT ![t] = "done"]
    /\ UNCHANGED <<logger, nLogged, nRecords, nForwarded, history, expHost, expMeta, compressVars>>

\* log_message returns to its caller
Return(t) ==
    /\ pc[t] = "done"
    /\ pc' = [pc EXCEPT ![t] = "idle"]
    /\ call' = [call EXCEPT ![t] = Idle]
    /\ UNCHANGED <<logger, nLogged, nSent, nRecords, nForwarded, history, expHost, expMeta, compressVars>>

-----------------------------------------------------------------------------
(* GELF JSON *)

\* the text of a name or value as one unit of the rendered JSON
Byte(s) ==
    CASE s = "1.1" -> 11
      [] s = "myhost" -> 21
      [] s = "other" -> 22
      [] s = "hi" -> 31
      [] s = "rec" -> 32
      [] s = "facility" -> 41
      [] s = "host" -> 42
      [] s = "a" -> 51
      [] s = "b" -> 52
      [] s = "_" -> 95

KeyOrder == <<"facility", "host">>

RECURSIVE RenderFields(_, _)
RenderFields(fields, i) ==
    IF i > Len(KeyOrder) THEN <<>>
    ELSE LET f == Prefix(KeyOrder[i])
         IN (IF f \in DOMAIN fields
             THEN <<Byte(f[1]), Byte(f[2]), Byte(fields[f])>>
             ELSE <<>>) \o RenderFields(fields, i + 1)

NoError == [kind |-> "", name |-> ""]

\* WireMessage::to_gelf: the flat JSON object, or an encoding error when a staged
\* key collides with a reserved field name
to_gelf(wire) ==
    IF \E f \in DOMAIN wire.fields : Unprefix(f) \in ReservedNames
    THEN [ok |-> FALSE, json |-> <<>>, err |-> [kind |-> "EncodingError", name |-> ""]]
    ELSE [ok |-> TRUE,
          json |-> <<Byte(wire.version), Byte(wire.host), Byte(wire.short_message),
                     wire.level>> \o RenderFields(wire.fields, 1),
          err |-> NoError]

-----------------------------------------------------------------------------
(* The stream encoders and their decoders *)

RECURSIVE RunLength(_, _)
RunLength(bytes, b) ==
    IF bytes # <<>> /\ Head(bytes) = b THEN 1 + RunLength(Tail(bytes), b) ELSE 0

RECURSIVE Drop(_, _)
Drop(bytes, n) == IF n = 0 THEN bytes ELSE Drop(Tail(bytes), n - 1)

\* the compressed body: each run of equal bytes as <<length, byte>>
RECURSIVE Deflate(_)
Deflate(bytes) ==
    IF bytes = <<>> THEN <<>>
    ELSE LET n == RunLength(bytes, Head(bytes))
         IN <<n, Head(bytes)>> \o Deflate(Drop(bytes, n))

RECURSIVE Repeat(_, _)
Repeat(b, n) == IF n = 0 THEN <<>> ELSE <<b>> \o Repeat(b, n - 1)

RECURSIVE Inflate(_)
Inflate(body) ==
    IF Len(body) < 2 THEN <<>>
    ELSE Repeat(body[2], body[1]) \o Inflate(Drop(body, 2))

RECURSIVE Sum(_)
Sum(bytes) == IF bytes = <<>> THEN 0 ELSE Head(bytes) + Sum(Tail(bytes))

GzipHeader == <<31, 139, 8, 0>>
ZlibHeader == <<120, 156>>

GzipTrailer(bytes) == <<Sum(bytes) % 256, Len(bytes) % 256>>
ZlibTrailer(bytes) == <<(1 + Sum(bytes)) % 251>>

gzip_encode(bytes) == GzipHeader \o Deflate(bytes) \o GzipTrailer(bytes)
zlib_encode(bytes) == ZlibHeader \o Deflate(bytes) \o ZlibTrailer(bytes)

Undecodable == [ok |-> FALSE, bytes |-> <<>>]

Framed(bs, header, trailerLen) ==
    /\ Len(bs) >= Len(header) + trailerLen
    /\ SubSeq(bs, 1, Len(header)) = header

Payload(bs, header, trailerLen) ==
    Inflate(SubSeq(bs, Len(header) + 1, Len(bs) - trailerLen))

gzip_decode(bs) ==
    IF ~Framed(bs, GzipHeader, 2) THEN Undecodable
    ELSE LET out == Payload(bs, GzipHeader, 2)
         IN IF SubSeq(bs, Len(bs) - 1, Len(bs)) = GzipTrailer(out)
            THEN [ok |-> TRUE, bytes |-> out] ELSE Undecodable

zlib_decode(bs) ==
    IF ~Framed(bs, ZlibHeader, 1) THEN Undecodable
    ELSE LET out == Payload(bs, ZlibHeader, 1)
         IN IF SubSeq(bs, Len(bs), Len(bs)) = ZlibTrailer(out)
            THEN [ok |-> TRUE, bytes |-> out] ELSE Undecodable

\* the decoder matching an algorithm; the identity for None
Decode(alg, bs) ==
    CASE alg = "None" -> [ok |-> TRUE, bytes |-> bs]
      [] alg = "Gzip" -> gzip_decode(bs)
      [] alg = "Zlib" -> zlib_decode(bs)

-----------------------------------------------------------------------------
(* MessageCompression *)

Algorithms == {"None", "Gzip", "Zlib"}

\* where the encoder's io::Result is an Err
IoFailures == {"none", "init", "write", "finish"}

\* the name given to ErrorKind::CompressMessageFailed in each branch
AlgName_copied(alg) == "gzip"

AlgName(alg) == IF alg = "Gzip" THEN "gzip" ELSE "zlib"

\* the encoder each branch constructs
Encode_copied(alg, bytes) == gzip_encode(bytes)

Encode(alg, bytes) == IF alg = "Gzip" THEN gzip_encode(bytes) ELSE zlib_encode(bytes)

\* Encoder::new(Vec::new()).and_then(|e| io::copy(..).and_then(|_| e.finish().into_result()))
\*     .chain_err(|| CompressMessageFailed(name))
Stream(alg, json, io) ==
    LET failed(steps) == [ok |-> FALSE, bytes |-> <<>>, enc |-> steps,
                          err |-> [kind |-> "CompressMessageFailed", name |-> AlgName(alg)]]
    IN CASE io = "init" -> failed(<<"new">>)
         [] io = "write" -> failed(<<"new", "copy">>)
         [] io = "finish" -> failed(<<"new", "copy", "finish">>)
         [] io = "none" -> [ok |-> TRUE, bytes |-> Encode(alg, json),
                            enc |-> <<"new", "copy", "finish">>, err |-> NoError]

compress_encoder_first(self, message, io) ==
    IF self # "None" /\ io # "none" THEN Stream(self, <<>>, io)
    ELSE LET json == to_gelf(message)
         IN IF ~json.ok
            THEN [ok |-> FALSE, bytes |-> <<>>, err |-> json.err,
                  enc |-> IF self = "None" THEN <<>> ELSE <<"new">>]
            ELSE IF self = "None"
                 THEN [ok |-> TRUE, bytes |-> json.json, enc |-> <<>>, err |-> NoError]
                 ELSE Stream(self, json.json, io)

compress(self, message, io) ==
    LET json == to_gelf(message)
    IN IF ~json.ok
       THEN [ok |-> FALSE, bytes |-> <<>>, enc |-> <<>>, err |-> json.err]
       ELSE IF self = "None"
            THEN [ok |-> TRUE, bytes |-> json.json, enc |-> <<>>, err |-> NoError]
            ELSE Stream(self, json.json, io)

-----------------------------------------------------------------------------
(* compress applied to every wire message *)

Loggers == {[hostname |-> h, default_metadata |-> d] : h \in Hostnames, d \in Maps}
Messages == DirectMessages \cup {FromRecord(r) : r \in Records}
Wires == {log_message(l, m) : l \in Loggers, m \in Messages}

NoResult == [ok |-> FALSE, bytes |-> <<>>, enc |-> <<>>, err |-> NoError]

InitCompress ==
    /\ cpc = "start"
    /\ cin \in [alg : Algorithms, wire : Wires]
    /\ cio = "none"
    /\ cres = NoResult
    /\ cdec = Undecodable

Compress(io) ==
    /\ cpc = "start"
    /\ cio' = io
    /\ cres' = compress(cin.alg, cin.wire, io)
    /\ cpc' = "compressed"
    /\ UNCHANGED <<cin, cdec, loggerVars>>

\* the receiving side: the decoder of the same algorithm on the bytes returned
Decompress ==
    /\ cpc = "compressed"
    /\ cres.ok
    /\ cdec' = Decode(cin.alg, cres.bytes)
    /\ cpc' = "decoded"
    /\ UNCHANGED <<cin, cio, cres, loggerVars>>

-----------------------------------------------------------------------------
(* Specifications *)

Init ==
    /\ InitLogger
    /\ cpc = "start"
    /\ cin = [alg |-> "None", wire |-> log_message(logger, Message("hi", "Informational", EmptyMap))]
    /\ cio = "none"
    /\ cres = NoResult
    /\ cdec = Undecodable

Next ==
    \/ \E h \in Hostnames : SetHostname(h)
    \/ \E k \in Keys, v \in Values : AddDefaultMetadata(k, v)
    \/ \E t \in Threads, msg \in DirectMessages : LogMessageDirect(t, msg)
    \/ \E t \in Threads, record \in Records : Log(t, record)
    \/ \E t \in Threads : BackendLog(t)
    \/ \E t \in Threads : Return(t)

Spec == Init /\ [][Next]_vars

InitC == InitLogger /\ InitCompress

NextC ==
    \/ \E io \in IoFailures : Compress(io)
    \/ Decompress

SpecCompress == InitC /\ [][NextC]_vars

-----------------------------------------------------------------------------
(* Properties of the Logger (checked under Spec) *)

\* C1: the wire message handed to the backend carries the message's value for
\* every key the message sets, and the default's value for every key only the
\* logger's default_metadata sets.
C1_FieldPrecedence ==
    \A t \in Threads :
        pc[t] = "done" =>
            LET md == call[t].msg.metadata
                dm == default_metadata(logger)
                w == call[t].received
            IN /\ \A k \in DOMAIN md :
                     Prefix(k) \in DOMAIN w.fields /\ w.fields[Prefix(k)] = md[k]
               /\ \A k \in DOMAIN dm \ DOMAIN md :
                     Prefix(k) \in DOMAIN w.fields /\ w.fields[Prefix(k)] = dm[k]

C1_Witness ==
    \E t \in Threads :
        /\ pc[t] = "done"
        /\ "facility" \in DOMAIN call[t].msg.metadata
        /\ "facility" \in DOMAIN default_metadata(logger)
        /\ call[t].msg.metadata["facility"] # default_metadata(logger)["facility"]
        /\ "host" \in DOMAIN default_metadata(logger) \ DOMAIN call[t].msg.metadata

\* C5: the backend is invoked exactly once per log_message call: every call that
\* has passed its dispatch accounts for one invocation, and no call for two.
C5_OneSendPerCall ==
    /\ nSent + Cardinality({t \in Threads : pc[t] = "dispatch"}) = nLogged
    /\ \A t \in Threads : pc[t] = "done" => call[t].sends = 1

C5_Witness == nLogged = 2 /\ nSent = 2 /\ \E t \in Threads : pc[t] = "done"

\* C6 as stated: a failed send is surfaced to the caller of log_message.
C6_FailureSurfaced ==
    \A t \in Threads :
        (pc[t] = "done" /\ call[t].outcome = "err") => call[t].ret = "err"

\* C6 as amended: on a failed send log_message still returns the unit value (the
\* backend's result is dropped) and the backend was invoked once, not again.
C6_FailureDroppedNoRetry ==
    \A t \in Threads :
        (pc[t] = "done" /\ call[t].outcome = "err") =>
            call[t].ret = "unit" /\ call[t].sends = 1

C6_Witness == \E t \in Threads : pc[t] = "done" /\ call[t].outcome = "err"

\* C7: the host of every wire message built by log_message is the Logger's
\* hostname at the call, which is the value most recently given to the Logger
\* (by new_with_hostname or the last set_hostname); hostname() returns it.
C7_HostIsHostname ==
    /\ hostname(logger) = expHost
    /\ \A t \in Threads :
          /\ pc[t] # "idle" => call[t].wire.host = expHost
          /\ pc[t] = "done" => call[t].received.host = expHost

C7_Witness ==
    \E t \in Threads :
        /\ pc[t] = "done"
        /\ history.hostSet
        /\ DOMAIN default_metadata(logger) # {}
        /\ nLogged = 2

\* C8: default_metadata starts empty, maps every key ever added to the value of
\* its most recent add and holds no other key; no step removes a key, and an
\* add leaves hostname and the values of all other keys as they were.
C8_StateOk ==
    /\ DOMAIN default_metadata(logger) = {k \in Keys : expMeta[k] # "absent"}
    /\ \A k \in DOMAIN default_metadata(logger) : default_metadata(logger)[k] = expMeta[k]

C8_StepOk ==
    /\ DOMAIN default_metadata(logger) \subseteq DOMAIN default_metadata(logger')
    /\ \A k \in Keys, v \in Values :
          AddDefaultMetadata(k, v) =>
              /\ hostname(logger') = hostname(logger)
              /\ \A j \in DOMAIN default_metadata(logger) \ {k} :
                    default_metadata(logger')[j] = default_metadata(logger)[j]

C8_DefaultMetadata == []C8_StateOk /\ [][C8_StepOk]_vars

C8_Witness ==
    /\ history.replaced
    /\ DOMAIN default_metadata(logger) = Keys
    /\ default_metadata(logger)["facility"] # default_metadata(logger)["host"]

\* C9: the adapter reports every level as enabled and forwards every record it
\* is given to log_message once, converted by From<&LogRecord>.
C9_AdapterForwardsAll ==
    /\ nForwarded = nRecords
    /\ \A t \in Threads :
          (pc[t] # "idle" /\ call[t].via = "log") =>
              /\ call[t].enabledSeen
              /\ call[t].msg = FromRecord(call[t].record)

C9_Witness ==
    \E t \in Threads :
        pc[t] = "done" /\ call[t].via = "log" /\ call[t].record.level = "Trace"

\* C10: a log_message step leaves the Logger as it was, and every call in
\* progress, whatever other calls are in progress, holds and hands over the wire
\* message built from its own message and the Logger alone.
C10_StateOk ==
    \A t \in Threads :
        /\ pc[t] # "idle" => call[t].wire = WireMessage_new(call[t].msg, logger)
        /\ pc[t] = "done" => call[t].received = WireMessage_new(call[t].msg, logger)

C10_StepOk == (pc' # pc) => (logger' = logger)

C10_ReadOnlyCalls == []C10_StateOk /\ [][C10_StepOk]_vars

C10_Witness ==
    /\ pc["t1"] = "done"
    /\ pc["t2"] = "dispatch"
    /\ call["t1"].msg.metadata # call["t2"].msg.metadata
    /\ DOMAIN default_metadata(logger) # {}

-----------------------------------------------------------------------------
(* Properties of compress (checked under SpecCompress) *)

\* C2: the matching decoder recovers exactly the bytes of to_gelf() from the
\* bytes compress returns; under None those bytes are the JSON bytes themselves.
C2_RoundTrip ==
    /\ cpc = "decoded" => (cdec.ok /\ cdec.bytes = to_gelf(cin.wire).json)
    /\ (cpc # "start" /\ cin.alg = "None" /\ cres.ok) =>
          cres.bytes = to_gelf(cin.wire).json

C2_Witness ==
    /\ cpc = "decoded"
    /\ cin.alg = "Zlib"
    /\ cres.bytes # to_gelf(cin.wire).json
    /\ Len(cdec.bytes) > 4

\* C3: when to_gelf() fails, compress returns that encoding error under every
\* algorithm, with no encoder created or written, never a compression error.
C3_EncodingFirst ==
    (cpc # "start" /\ ~to_gelf(cin.wire).ok) =>
        /\ ~cres.ok
        /\ cres.err = to_gelf(cin.wire).err
        /\ cres.err.kind = "EncodingError"
        /\ cres.enc = <<>>

C3_Witness ==
    /\ cpc = "compressed"
    /\ ~to_gelf(cin.wire).ok
    /\ cin.alg = "Gzip"
    /\ cio = "init"

\* C4: a failure of the encoder to initialize, write or finalize yields a
\* compression error named after the selected algorithm, "gzip" under Gzip and
\* "zlib" under Zlib; None never yields a compression error.
C4_ErrorNamesAlgorithm ==
    cpc # "start" =>
        /\ (to_gelf(cin.wire).ok /\ cin.alg # "None" /\ cio # "none") =>
              (~cres.ok /\ cres.err.kind = "CompressMessageFailed")
        /\ cres.err.kind = "CompressMessageFailed" =>
              /\ cin.alg = "Gzip" => cres.err.name = "gzip"
              /\ cin.alg = "Zlib" => cres.err.name = "zlib"
              /\ cin.alg # "None"

C4_Witness ==
    /\ cpc = "compressed"
    /\ cin.alg = "Zlib"
    /\ cio = "finish"
    /\ cres.err.kind = "CompressMessageFailed"

====
